---- MODULE Spec2Model ----
(***************************************************************************)
(* A model of scripts/specific_data.py: select properties of the elements  *)
(* of the periodic table (explicitly with --properties, interactively with *)
(* --interactive, or both) and write them to a .json and/or .csv file.     *)
(*                                                                         *)
(* Text that the program inspects character by character (the --output     *)
(* file name) is a sequence of one-character strings.  Property names and  *)
(* scalar values are atomic strings.  A JSON object / Python dict is a     *)
(* sequence of <<key, value>> pairs, which keeps its insertion order.      *)
(***************************************************************************)
EXTENDS Naturals, Sequences, FiniteSets

VARIABLES
    argv,         \* the command line: [properties, interactive, output]
    datafile,     \* the 'elements' array of PeriodicTableJSON.json
    stdin_log,    \* the raw lines the user typed at the prompts so far
    pc,           \* position in main(): "main", "read", "properties",
                  \*   "interactive", "prompt", "save", "exited"
    args,         \* argparse.Namespace: [properties, interactive, output]
    elements,     \* main's elements (<<>> until read_periodic_table ran)
    keys,         \* main's keys: elements[0].keys(), in order
    data_needed,  \* the dict data_needed: its keys, in insertion order
    key_idx,      \* parse_interactive: index in keys of the loop variable key
    needed,       \* parse_interactive: the last answer read (<<>> if none)
    done,         \* parse_interactive: the flag done
    data,         \* save2file: the projected records
    header,       \* save2file: data_needed.keys()
    files,        \* the files written so far: [path, format, text]
    stdout,       \* the messages printed so far: [kind, text]
    exit_status,  \* <<>> while the process runs, <<n>> after sys.exit(n)
    run,          \* 1 for the first run, 2 for a repeated run
    stdin_pos,    \* a repeated run: how many lines of stdin_log are consumed
    first_files   \* a repeated run: the files as the first run left them

vars == <<argv, datafile, stdin_log, pc, args, elements, keys, data_needed,
          key_idx, needed, done, data, header, files, stdout, exit_status,
          run, stdin_pos, first_files>>

----------------------------------------------------------------------------
(* Bounds of the model *)

\* the longest comma separated list given to --properties
MaxProps == 2
\* the largest number of element records in the data file
MaxRecords == 2
\* the largest number of invalid answers the user types in one run
MaxInvalid == 1

----------------------------------------------------------------------------
(* Text helpers *)

UpperCase == <<"A","B","C","D","E","F","G","H","I","J","K","L","M",
               "N","O","P","Q","R","S","T","U","V","W","X","Y","Z">>
LowerCase == <<"a","b","c","d","e","f","g","h","i","j","k","l","m",
               "n","o","p","q","r","s","t","u","v","w","x","y","z">>

\* str.lower() on one character
LowerChar(c) ==
    IF \E i \in DOMAIN UpperCase : UpperCase[i] = c
    THEN LowerCase[CHOOSE i \in DOMAIN UpperCase : UpperCase[i] = c]
    ELSE c

\* str.lower()
Lower(s) == [i \in DOMAIN s |-> LowerChar(s[i])]

\* str.endswith(suffix)
EndsWith(s, suffix) ==
    /\ Len(s) >= Len(suffix)
    /\ SubSeq(s, Len(s) - Len(suffix) + 1, Len(s)) = suffix

\* str.endswith(tuple of suffixes)
EndsWithAny(s, suffixes) == \E suffix \in suffixes : EndsWith(s, suffix)

RECURSIVE Flatten(_)
\* ''.join: the concatenation of a sequence of sequences
Flatten(ss) == IF ss = <<>> THEN <<>> ELSE Head(ss) \o Flatten(Tail(ss))

\* the orders in which iterating the set S can yield its members
Orders(S) ==
    {s \in [1..Cardinality(S) -> S] :
        \A i, j \in 1..Cardinality(S) : s[i] = s[j] => i = j}

\* the members of the sequence s, as a set
Range(s) == {s[i] : i \in DOMAIN s}

\* all sequences over S of length lo..hi
SeqsOf(S, lo, hi) == UNION {[1..n -> S] : n \in lo..hi}

----------------------------------------------------------------------------
(* Program constants *)

\* main: default_file = 'SpecificData'
default_file == <<"S","p","e","c","i","f","i","c","D","a","t","a">>

DotJson == <<".","j","s","o","n">>
DotJSON == <<".","J","S","O","N">>
DotCsv  == <<".","c","s","v">>
DotCSV  == <<".","C","S","V">>

\* the tuple ('.json', '.JSON', '.csv', '.CSV') of validate and save2file
SupportedSuffixes == {DotJson, DotJSON, DotCsv, DotCSV}

\* Path(__file__).parents[1]: the directory above the script's directory
ParentDir == <<"<", "r", "e", "p", "o", ">">>

----------------------------------------------------------------------------
(* The inputs of a run *)

\* a JSON scalar: <<type, text>>
Str(t) == <<"str", t>>
Num(t) == <<"num", t>>
Null == <<"null", "">>

\* element records as the data file may hold them; the keys of a record are
\* in the order of the file
Hydrogen ==
    << <<"name", Str("Hydrogen")>>, <<"symbol", Str("H")>>,
       <<"atomic_mass", Num("1.008")>> >>
\* a record that lacks a key the other has, and holds a null
Oganesson ==
    << <<"atomic_mass", Null>>, <<"name", Str("Oganesson")>> >>

Records == {Hydrogen, Oganesson}

\* the 'elements' arrays the data file may hold
Datasets == SeqsOf(Records, 1, MaxRecords)

\* the names a user may ask for with --properties
PropNames == {"name", "atomic_mass", "bogus"}

\* the values a user may give to --output
OutputNames ==
    { <<"a",".","j","s","o","n">>,
      <<"a",".","J","S","O","N">>,
      <<"a",".","J","s","o","n">>,
      <<"a",".","t","x","t">>,
      <<"d","/","j","s","o","n",".","c","s","v">>,
      default_file }

\* the lines a user may type at a prompt
InputLines == {"y", "n", "q", "", "Y"}

\* the command lines: --properties absent (<<>>) or a list of names,
\* --interactive present or not, --output absent, given bare, or with a value
CommandLines ==
    [properties  : {<<>>} \cup SeqsOf(PropNames, 1, MaxProps),
     interactive : BOOLEAN,
     output      : {[given |-> "absent", value |-> <<>>],
                    [given |-> "bare", value |-> <<>>]}
                   \cup {[given |-> "value", value |-> v] : v \in OutputNames}]

----------------------------------------------------------------------------
(* The functions of the program *)

\* parser.parse_args(): --properties has nargs=1 and type=comma_separated, so
\* it is None (<<>>) or a list holding one list of names; --output has
\* nargs='?', const=default_file and default=default_file
parse_args(cmd) ==
    [properties  |-> IF cmd.properties = <<>> THEN <<>> ELSE <<cmd.properties>>,
     interactive |-> cmd.interactive,
     output      |-> IF cmd.output.given = "value" THEN cmd.output.value
                     ELSE default_file]

\* a validate that accepts every name
validate_nothing(a) == TRUE

\* main.validate: TRUE when it returns, FALSE when it raises ValueError
validate(a) ==
    IF a.output = default_file THEN TRUE
    ELSE EndsWithAny(a.output, SupportedSuffixes)

\* dict.keys(): the keys of a record, in order
KeysOf(rec) == [i \in DOMAIN rec |-> rec[i][1]]

\* k in dict
HasKey(rec, k) == \E i \in DOMAIN rec : rec[i][1] = k

\* dict[k], for a key the dict has
Lookup(rec, k) == rec[CHOOSE i \in DOMAIN rec : rec[i][1] = k][2]

\* read_periodic_table: (elements, elements[0].keys())
read_periodic_table(file) == [elements |-> file, keys |-> KeysOf(file[1])]

\* parse_properties: the set bad = props - keys
bad_props(a, ks) == Range(a.properties[1]) \ Range(ks)

\* a parse_properties that takes every requested name as good
good_props_unchecked(a, ks) == Range(a.properties[1])

\* parse_properties: the set good = props & keys
good_props(a, ks) == Range(a.properties[1]) \cap Range(ks)

\* data_needed.update({k: True for k in good}), good iterated in goodOrder:
\* a key the dict has keeps its place, a new key goes to the end
RECURSIVE dict_update(_, _)
dict_update(dn, goodOrder) ==
    IF goodOrder = <<>> THEN dn
    ELSE dict_update(IF Head(goodOrder) \in Range(dn) THEN dn
                     ELSE Append(dn, Head(goodOrder)),
                     Tail(goodOrder))

\* a default_input without the default
default_input_none(line) == line

\* parse_interactive.default_input: an empty line is the default 'y'
default_input(line) == IF line = "" THEN "y" ELSE line

\* a for loop without 'if key in data_needed: continue'
next_key_no_skip(ks, dn, i) == i + 1

\* parse_interactive: the index of the first key after position i that the
\* for loop does not skip ('if key in data_needed: continue'), or
\* Len(ks) + 1 when the loop is exhausted
next_key(ks, dn, i) ==
    IF \E j \in (i + 1)..Len(ks) : ks[j] \notin Range(dn)
    THEN CHOOSE j \in (i + 1)..Len(ks) :
            /\ ks[j] \notin Range(dn)
            /\ \A m \in (i + 1)..(j - 1) : ks[m] \in Range(dn)
    ELSE Len(ks) + 1

\* save2file.selected_from: one record alone, {k: each[k] for k in data_needed}
select_one(each, dn) == [j \in DOMAIN dn |-> <<dn[j], Lookup(each, dn[j])>>]

\* a selected_from that projects the first record for every record
selected_from_first(els, dn) == [i \in DOMAIN els |-> select_one(els[1], dn)]

\* save2file.selected_from: data (header is data_needed.keys())
selected_from(els, dn) == [i \in DOMAIN els |-> select_one(els[i], dn)]

\* save2file.selected_from raises KeyError: some record lacks a selected key
key_error(els, dn) ==
    \E i \in DOMAIN els : \E j \in DOMAIN dn : ~HasKey(els[i], dn[j])

\* PurePath(output).name: the last component of the path
path_name(output) ==
    LET slashes == {i \in DOMAIN output : output[i] = "/"}
    IN  IF slashes = {} THEN output
        ELSE SubSeq(output,
                    (CHOOSE i \in slashes : \A j \in slashes : j <= i) + 1,
                    Len(output))

\* a file name that keeps the path as given
file_name_as_given(output) == output

\* write_json, write_csv: fname = os.path.join(parents[1], PurePath(output).name)
file_name(output) == ParentDir \o <<"/">> \o path_name(output)

\* json.dump of one scalar
json_value(v) ==
    IF v[1] = "str" THEN <<"\"", v[2], "\"">>
    ELSE IF v[1] = "null" THEN <<"null">>
    ELSE <<v[2]>>

\* json.dump of one object, its keys in the order of the dict
json_object(d) ==
    <<"{">> \o
    Flatten([j \in DOMAIN d |->
                <<"\"", d[j][1], "\"", ":">> \o json_value(d[j][2])
                \o (IF j < Len(d) THEN <<",">> ELSE <<>>)])
    \o <<"}">>

\* json.dump(data, jsonfile, indent=4): the text of the file
json_dump(d) ==
    <<"[">> \o
    Flatten([i \in DOMAIN d |->
                json_object(d[i]) \o (IF i < Len(d) THEN <<",">> ELSE <<>>)])
    \o <<"]">>

\* csv: one cell; None is written as the empty string
csv_cell(v) == IF v[1] = "null" THEN "" ELSE v[2]

\* csv: one line
csv_line(cells) ==
    Flatten([j \in DOMAIN cells |->
                <<cells[j]>> \o (IF j < Len(cells) THEN <<",">> ELSE <<>>)])
    \o <<"\r\n">>

\* DictWriter(fieldnames=header).writeheader() and .writerows(data)
csv_dump(d, hdr) ==
    csv_line(hdr) \o
    Flatten([i \in DOMAIN d |->
                csv_line([j \in DOMAIN hdr |-> csv_cell(Lookup(d[i], hdr[j]))])])

\* open(fname, 'w'): the file system after fname is (re)written
write_file(fs, fname, format, text) ==
    {f \in fs : f.path # fname}
    \cup {[path |-> fname, format |-> format, text |-> text]}

\* write_json(output, data)
write_json(fs, output, d) ==
    write_file(fs, file_name(output), "json", json_dump(d))

\* write_csv(output, data, header)
write_csv(fs, output, d, hdr) ==
    write_file(fs, file_name(output), "csv", csv_dump(d, hdr))

\* save2file after selected_from: "ok" and the file system it leaves, or
\* "ValueError" for an unsupported extension
save2file(fs, a, d, hdr) ==
    IF a.output = default_file
    THEN [result |-> "ok",
          files  |-> write_csv(write_json(fs, default_file \o DotJson, d),
                               default_file \o DotCsv, d, hdr)]
    ELSE IF ~EndsWithAny(a.output, SupportedSuffixes)
    THEN [result |-> "ValueError", files |-> fs]
    ELSE LET fs1 == IF EndsWith(Lower(a.output), DotJson)
                    THEN write_json(fs, a.output, d) ELSE fs
             fs2 == IF EndsWith(Lower(a.output), DotCsv)
                    THEN write_csv(fs1, a.output, d, hdr) ELSE fs1
         IN  [result |-> "ok", files |-> fs2]

\* one printed message
Msg(kind, text) == [kind |-> kind, text |-> text]

\* parse_interactive: show_selected() and show_next() for the key at index i
show_prompt(dn, ks, i) == <<Msg("selected", dn), Msg("next", <<ks[i]>>)>>

\* the number of 'Invalid input' lines printed so far
Invalids(out) == Cardinality({i \in DOMAIN out : out[i].kind = "invalid"})

\* a loop body in which 'q' does not set done
select_quit_ignored(dn, k, nd) ==
    IF nd = "y"
    THEN [data_needed |-> dict_update(dn, <<k>>), leave |-> TRUE, done |-> FALSE]
    ELSE IF nd \in {"n", "q"}
    THEN [data_needed |-> dn, leave |-> TRUE, done |-> FALSE]
    ELSE [data_needed |-> dn, leave |-> FALSE, done |-> FALSE]

\* parse_interactive: the body of 'while True' for the answer nd to key k.
\* leave is FALSE when the loop body runs again ('continue')
select(dn, k, nd) ==
    IF nd = "y"
    THEN [data_needed |-> dict_update(dn, <<k>>), leave |-> TRUE, done |-> FALSE]
    ELSE IF nd = "n" THEN [data_needed |-> dn, leave |-> TRUE, done |-> FALSE]
    ELSE IF nd = "q" THEN [data_needed |-> dn, leave |-> TRUE, done |-> TRUE]
    ELSE [data_needed |-> dn, leave |-> FALSE, done |-> FALSE]

\* a main that saves whatever the selection
truthy_always(dn) == TRUE

\* main: 'if data_needed:' a dict is true when it is not empty
truthy(dn) == dn # <<>>

ErrorText == <<"ERROR: Unsupported file extension. Enter a .json or .csv file.">>
NoticeText == <<"No properties selected.">>

----------------------------------------------------------------------------
(* The state machine *)

NoArgs == [properties |-> <<>>, interactive |-> FALSE, output |-> <<>>]

Init ==
    /\ argv \in CommandLines
    /\ datafile \in Datasets
    /\ stdin_log = <<>>
    /\ pc = "main"
    /\ args = NoArgs
    /\ elements = <<>>
    /\ keys = <<>>
    /\ data_needed = <<>>
    /\ key_idx = 0
    /\ needed = ""
    /\ done = FALSE
    /\ data = <<>>
    /\ header = <<>>
    /\ files = {}
    /\ stdout = <<>>
    /\ exit_status = <<>>
    /\ run = 1
    /\ stdin_pos = 0
    /\ first_files = {}

\* __main__ when main() raised ValueError: pwclr(f"ERROR: {err}"); sys.exit(1)
ExitValueError ==
    /\ stdout' = Append(stdout, Msg("error", ErrorText))
    /\ exit_status' = <<1>>
    /\ pc' = "exited"

\* main: parse_args() and validate(args)
Main ==
    /\ pc = "main"
    /\ args' = parse_args(argv)
    /\ IF validate(args')
       THEN /\ pc' = "read"
            /\ UNCHANGED <<stdout, exit_status>>
       ELSE ExitValueError
    /\ UNCHANGED <<argv, datafile, stdin_log, elements, keys, data_needed,
                   key_idx, needed, done, data, header, files, run, stdin_pos,
                   first_files>>

\* main: elements, keys = read_periodic_table(); data_needed = {}
ReadPeriodicTable ==
    /\ pc = "read"
    /\ elements' = read_periodic_table(datafile).elements
    /\ keys' = read_periodic_table(datafile).keys
    /\ data_needed' = <<>>
    /\ pc' = "properties"
    /\ UNCHANGED <<argv, datafile, stdin_log, args, key_idx, needed, done,
                   data, header, files, stdout, exit_status, run, stdin_pos,
                   first_files>>

\* main: if args.properties: data_needed = parse_properties(...).  The sets
\* bad and good are iterated in an order the hash seed of the run decides
ParseProperties ==
    /\ pc = "properties"
    /\ IF args.properties # <<>>
       THEN \E goodOrder \in Orders(good_props(args, keys)) :
            \E badOrder \in Orders(bad_props(args, keys)) :
               /\ data_needed' = dict_update(data_needed, goodOrder)
               /\ stdout' = stdout
                    \o [i \in DOMAIN badOrder |-> Msg("not found", <<badOrder[i]>>)]
                    \o [i \in DOMAIN goodOrder |-> Msg("found", <<goodOrder[i]>>)]
       ELSE UNCHANGED <<data_needed, stdout>>
    /\ pc' = "interactive"
    /\ UNCHANGED <<argv, datafile, stdin_log, args, elements, keys, key_idx,
                   needed, done, data, header, files, exit_status, run,
                   stdin_pos, first_files>>

\* parse_interactive: the for loop moves on from index i with the dict dn:
\* the next key that is not skipped is prompted for, or the function returns
Advance(dn, i) ==
    LET j == next_key(keys, dn, i)
    IN  IF j <= Len(keys)
        THEN /\ key_idx' = j
             /\ stdout' = stdout \o show_prompt(dn, keys, j)
             /\ pc' = "prompt"
        ELSE /\ pc' = "save"
             /\ UNCHANGED <<key_idx, stdout>>

\* main: if args.interactive: data_needed = parse_interactive(...), up to the
\* first prompt
ParseInteractive ==
    /\ pc = "interactive"
    /\ IF args.interactive
       THEN Advance(data_needed, 0)
       ELSE /\ pc' = "save"
            /\ UNCHANGED <<key_idx, stdout>>
    /\ UNCHANGED <<argv, datafile, stdin_log, args, elements, keys,
                   data_needed, needed, done, data, header, files,
                   exit_status, run, stdin_pos, first_files>>

\* parse_interactive: the user types line at the prompt for keys[key_idx].
\* A repeated run is given the lines of the first run
Answer(line) ==
    /\ pc = "prompt"
    /\ IF run = 1
       THEN stdin_log' = Append(stdin_log, line)
       ELSE /\ stdin_pos < Len(stdin_log)
            /\ line = stdin_log[stdin_pos + 1]
            /\ UNCHANGED stdin_log
    /\ stdin_pos' = stdin_pos + 1
    /\ needed' = default_input(line)
    /\ LET r == select(data_needed, keys[key_idx], needed')
       IN  /\ data_needed' = r.data_needed
           /\ done' = r.done
           /\ IF ~r.leave
              THEN /\ Invalids(stdout) < MaxInvalid
                   /\ stdout' = stdout \o <<Msg("invalid", <<"Invalid input">>)>>
                                  \o show_prompt(data_needed, keys, key_idx)
                   /\ UNCHANGED <<pc, key_idx>>
              ELSE IF r.done
              THEN /\ pc' = "save"
                   /\ UNCHANGED <<key_idx, stdout>>
              ELSE Advance(r.data_needed, key_idx)
    /\ UNCHANGED <<argv, datafile, args, elements, keys, data, header, files,
                   exit_status, run, first_files>>

\* main: if data_needed: save2file(...) else: pwclr("No properties selected."),
\* then sys.exit(0); a KeyError is not caught and ends the process with 1
Save ==
    /\ pc = "save"
    /\ pc' = "exited"
    /\ IF truthy(data_needed)
       THEN IF key_error(elements, data_needed)
            THEN /\ exit_status' = <<1>>
                 /\ UNCHANGED <<data, header, files, stdout>>
            ELSE /\ data' = selected_from(elements, data_needed)
                 /\ header' = data_needed
                 /\ LET r == save2file(files, args, data', header')
                    IN  IF r.result = "ok"
                        THEN /\ files' = r.files
                             /\ exit_status' = <<0>>
                             /\ UNCHANGED stdout
                        ELSE /\ stdout' = Append(stdout, Msg("error", ErrorText))
                             /\ exit_status' = <<1>>
                             /\ UNCHANGED files
       ELSE /\ stdout' = Append(stdout, Msg("notice", NoticeText))
            /\ exit_status' = <<0>>
            /\ UNCHANGED <<data, header, files>>
    /\ UNCHANGED <<argv, datafile, stdin_log, args, elements, keys,
                   data_needed, key_idx, needed, done, run, stdin_pos,
                   first_files>>

\* the tool is run a second time with the same command line, the same data
\* file and the same answers; the files of the first run are still there
Rerun ==
    /\ pc = "exited"
    /\ run = 1
    /\ run' = 2
    /\ first_files' = files
    /\ stdin_pos' = 0
    /\ pc' = "main"
    /\ args' = NoArgs
    /\ elements' = <<>>
    /\ keys' = <<>>
    /\ data_needed' = <<>>
    /\ key_idx' = 0
    /\ needed' = ""
    /\ done' = FALSE
    /\ data' = <<>>
    /\ header' = <<>>
    /\ stdout' = <<>>
    /\ exit_status' = <<>>
    /\ UNCHANGED <<argv, datafile, stdin_log, files>>

Next ==
    \/ Main
    \/ ReadPeriodicTable
    \/ ParseProperties
    \/ ParseInteractive
    \/ \E line \in InputLines : Answer(line)
    \/ Save

\* one run of the tool
Spec == Init /\ [][Next]_vars

NextTwice == Next \/ Rerun

\* the tool run twice in a row
SpecTwice == Init /\ [][NextTwice]_vars

\* the lines that are an answer: 'y', 'n', 'q' and the empty line
ValidLines == {line \in InputLines : default_input(line) \in {"y", "n", "q"}}

\* the runs that prompt: --interactive is given, and what the prompt loop
\* never reads is fixed (no --output, one record in the data file)
InitInteractive ==
    /\ Init
    /\ argv.interactive
    /\ argv.output.given = "absent"
    /\ Len(datafile) = 1

\* one run with --interactive in which the interpreter keeps executing and
\* the user, asked again and again, eventually types one of the answers
FairSpec ==
    /\ InitInteractive
    /\ [][Next]_vars
    /\ WF_vars(Main \/ ReadPeriodicTable \/ ParseProperties
               \/ ParseInteractive \/ Save)
    /\ WF_vars(\E line \in ValidLines : Answer(line))

----------------------------------------------------------------------------
(* What a state shows of the run so far *)

\* the field names available: the keys of the first record of the data file
Available == Range(KeysOf(datafile[1]))

\* the names asked for with --properties
Requested == Range(argv.properties)

\* the keys the user was prompted for ('Do you need <key>?'), in order, a
\* key once for every time it was asked
Prompted ==
    LET asks == SelectSeq(stdout, LAMBDA m : m.kind = "next")
    IN  [i \in DOMAIN asks |-> asks[i].text[1]]

\* the keys the user affirmed: the n-th line typed answers the n-th prompt
Affirmed ==
    {Prompted[n] : n \in {m \in DOMAIN Prompted :
                            m <= stdin_pos /\ stdin_log[m] \in {"y", ""}}}

\* the position of key k in the field order of the data file
FieldPos(k) == CHOOSE i \in DOMAIN datafile[1] : datafile[1][i][1] = k

\* the run got past validate and read the data file
Loaded == elements # <<>>

\* a record of the data file lacks a selected field
SomeRecordLacksKey ==
    \E i \in DOMAIN datafile : \E k \in Range(data_needed) :
        \A m \in DOMAIN datafile[i] : datafile[i][m][1] # k

\* the step from this state to the next is the read of one line at a prompt
AnswerStep == pc = "prompt" /\ stdin_pos' = stdin_pos + 1

\* the line read by an AnswerStep
LineRead == stdin_log'[stdin_pos']

\* the --output value ends in .json or .csv, in any letter case
RecognizedExtension(name) ==
    \/ Lower(SubSeq(name, Len(name) - 4, Len(name))) = <<".","j","s","o","n">>
    \/ Lower(SubSeq(name, Len(name) - 3, Len(name))) = <<".","c","s","v">>

----------------------------------------------------------------------------
(* C1 *)

\* C1: at every point of a run the selected field names are available field
\* names (keys of the first record of the data file); once parse_properties
\* has run, no requested name that is unavailable is selected, each such
\* name was reported as not found, each requested available name is
\* selected, and the run goes on (it has not exited in parse_properties).
C1_SelectedAreAvailable ==
    /\ Range(data_needed) \subseteq Available
    /\ pc \in {"interactive", "prompt", "save"} =>
          /\ exit_status = <<>>
          /\ \A p \in Requested \ Available :
                /\ p \notin Range(data_needed)
                /\ \E i \in DOMAIN stdout : stdout[i] = Msg("not found", <<p>>)
          /\ Requested \cap Available \subseteq Range(data_needed)

\* a run that asked for a known and an unknown name, answered a prompt, and
\* is about to save a selection
C1_Witness ==
    /\ pc = "save"
    /\ Requested \cap Available # {}
    /\ Requested \ Available # {}
    /\ stdin_pos > 0
    /\ Len(data_needed) >= 2

----------------------------------------------------------------------------
(* C2 *)

\* C2: when save2file has built its projection, data has one record per
\* record of the dataset, in the order of the dataset; the keys of every
\* projected record are exactly the selected fields, each once; and every
\* key/value pair of the i-th projected record is a pair of the i-th record
\* of the dataset.
C2_ProjectionExact ==
    data # <<>> =>
       /\ data_needed # <<>>
       /\ Len(data) = Len(datafile)
       /\ \A i \in DOMAIN data :
             /\ Range(KeysOf(data[i])) = Range(data_needed)
             /\ Len(data[i]) = Cardinality(Range(data_needed))
             /\ \A j \in DOMAIN data[i] :
                   \E m \in DOMAIN datafile[i] : datafile[i][m] = data[i][j]

\* a projection of two different records onto two fields
C2_Witness ==
    /\ Len(data) = 2
    /\ datafile[1] # datafile[2]
    /\ Len(data_needed) = 2
    /\ data[1] # data[2]

----------------------------------------------------------------------------
(* C3 *)

\* C3: a run that resolved its selection (it read the data file and has
\* exited) with an empty selection wrote no file, printed the notice 'No
\* properties selected.' and exited with status 0; and whenever a file
\* exists the selection is not empty.
C3_EmptySelectionWritesNothing ==
    /\ (pc = "exited" /\ Loaded /\ data_needed = <<>>) =>
          /\ files = {}
          /\ stdout[Len(stdout)] = Msg("notice", NoticeText)
          /\ exit_status = <<0>>
    /\ files # {} => data_needed # <<>>

\* only unknown names were requested and the one prompt answered was
\* declined or quit: nothing is selected at the exit
C3_Witness ==
    /\ pc = "exited"
    /\ Loaded
    /\ data_needed = <<>>
    /\ argv.properties # <<>>
    /\ stdin_pos > 0

----------------------------------------------------------------------------
(* C4 *)

\* C4, as the spec states it: a run given an --output value that does not
\* end in .json or .csv (in any letter case) ends in validate: nothing is
\* loaded, resolved, prompted or written, an error is printed and the exit
\* status is not 0.
C4_Original ==
    (/\ argv.output.given = "value"
     /\ ~RecognizedExtension(argv.output.value)
     /\ pc # "main") =>
       /\ pc = "exited"
       /\ exit_status = <<1>>
       /\ ~Loaded
       /\ data_needed = <<>>
       /\ stdin_pos = 0
       /\ files = {}
       /\ stdout = <<Msg("error", ErrorText)>>

\* C4, amended: the same for every --output value other than the default
\* base name 'SpecificData' (which the program takes as "no name given").
C4_UnsupportedExtensionFailsFirst ==
    (/\ argv.output.given = "value"
     /\ argv.output.value # default_file
     /\ ~RecognizedExtension(argv.output.value)
     /\ pc # "main") =>
       /\ pc = "exited"
       /\ exit_status = <<1>>
       /\ ~Loaded
       /\ data_needed = <<>>
       /\ stdin_pos = 0
       /\ files = {}
       /\ stdout = <<Msg("error", ErrorText)>>

\* --output a.txt with properties and --interactive requested has exited
C4_Witness ==
    /\ argv.output.given = "value"
    /\ argv.output.value = <<"a", ".", "t", "x", "t">>
    /\ argv.properties # <<>>
    /\ argv.interactive
    /\ pc = "exited"

----------------------------------------------------------------------------
(* C5 *)

\* C5: an --output value that ends in .json or .csv in any letter case
\* passes validate, and a run with such a value that exits with a selection
\* (and no record lacking a selected key) has written exactly one file, in
\* the format of the extension.
C5_CaseInsensitiveExtension ==
    (/\ argv.output.given = "value"
     /\ RecognizedExtension(argv.output.value)
     /\ pc # "main") =>
       /\ pc = "exited" => Loaded
       /\ (pc = "exited" /\ data_needed # <<>>
              /\ ~SomeRecordLacksKey) =>
             /\ Cardinality(files) = 1
             /\ \A f \in files :
                   f.format = IF Lower(SubSeq(argv.output.value,
                                              Len(argv.output.value) - 3,
                                              Len(argv.output.value)))
                                 = <<".","c","s","v">>
                              THEN "csv" ELSE "json"

----------------------------------------------------------------------------
(* C6 *)

\* the --output value has a directory component
HasDirectory(name) == "/" \in Range(name)

\* C6, as the spec states it: a file written for an --output value with a
\* directory component is at exactly the given path.
C6_Original ==
    (/\ argv.output.given = "value"
     /\ HasDirectory(argv.output.value)
     /\ pc = "exited") =>
       \A f \in files : f.path = argv.output.value

\* C6, amended: a run given an --output value with a directory component
\* writes at most one file, and writes it in the directory above the
\* script's directory under the last component of the given path: the given
\* directory is dropped.
C6_DirectoryDropped ==
    (/\ argv.output.given = "value"
     /\ HasDirectory(argv.output.value)
     /\ pc = "exited") =>
       /\ Cardinality(files) <= 1
       /\ data_needed # <<>> /\ ~SomeRecordLacksKey => files # {}
       /\ \A f \in files :
             \E k \in DOMAIN argv.output.value :
                /\ argv.output.value[k] = "/"
                /\ \A m \in (k + 1)..Len(argv.output.value) :
                      argv.output.value[m] # "/"
                /\ f.path = ParentDir \o <<"/">>
                              \o SubSeq(argv.output.value, k + 1,
                                        Len(argv.output.value))

\* a file was written for an --output value with a directory component
C6_Witness ==
    /\ argv.output.given = "value"
    /\ HasDirectory(argv.output.value)
    /\ pc = "exited"
    /\ files # {}

----------------------------------------------------------------------------
(* C7 *)

\* C7: a second run with the same command line, the same data file and the
\* same answers leaves the output files byte for byte as the first run left
\* them.
C7_Deterministic ==
    (run = 2 /\ pc = "exited") => files = first_files

----------------------------------------------------------------------------
(* C8 *)

\* C8: in a run with --properties and --interactive, the key prompted for is
\* never a selected one, no key explicitly selected was ever prompted for,
\* the explicitly selected keys stay selected, the keys are prompted for in
\* the field order of the data file, and when parse_interactive has returned
\* the selection is the union of the requested available names and the keys
\* the user affirmed.
C8_InteractiveUnion ==
    (args.properties # <<>> /\ args.interactive /\ Loaded
       /\ pc \in {"prompt", "save", "exited"}) =>
       /\ pc = "prompt" => keys[key_idx] \notin Range(data_needed)
       /\ \A n \in DOMAIN Prompted : Prompted[n] \notin Requested
       /\ Requested \cap Available \subseteq Range(data_needed)
       /\ \A n, m \in DOMAIN Prompted :
             n <= m => FieldPos(Prompted[n]) <= FieldPos(Prompted[m])
       /\ pc \in {"save", "exited"} =>
             Range(data_needed) = (Requested \cap Available) \cup Affirmed

\* an available name was requested, a later field was affirmed at a prompt
\* and another declined, and the run has exited
C8_Witness ==
    /\ pc = "exited"
    /\ Requested \cap Available # {}
    /\ Affirmed # {}
    /\ Len(Prompted) >= 2
    /\ Range(Prompted) \ Affirmed # {}
    /\ Range(data_needed) # Available

----------------------------------------------------------------------------
(* C9 *)

\* C9: the answer 'q' to a prompt ends the loop at once: the step that reads
\* it leaves the selection as it was, sets done and returns from
\* parse_interactive; from then on the selection does not change and nothing
\* more is prompted or read; and what is exported is that selection.
C9_QuitEndsLoop ==
    /\ [][(AnswerStep /\ LineRead = "q") =>
             /\ data_needed' = data_needed
             /\ done'
             /\ pc' = "save"
             /\ stdout' = stdout]_vars
    /\ [][done =>
             /\ data_needed' = data_needed
             /\ Prompted' = Prompted
             /\ stdin_pos' = stdin_pos
             /\ pc' = "exited"]_vars
    /\ [](done /\ pc = "exited" /\ data # <<>> => header = data_needed)

\* the user quit at a prompt that was not for the last field, after selecting
\* something, and the selection was exported
C9_Witness ==
    /\ done
    /\ pc = "exited"
    /\ key_idx < Len(keys)
    /\ data_needed # <<>>
    /\ files # {}

----------------------------------------------------------------------------
(* C10 *)

\* C10: reading a line at the prompt for a field has four outcomes.  'y' or
\* the empty line selects the field and moves on; 'n' moves on and selects
\* nothing; 'q' returns and selects nothing; any other line keeps the
\* selection and the field and prompts again.  Moving on is to a later field
\* or out of the loop.  If the user eventually types a valid answer whenever
\* prompted, every run that prompts ends.
C10_PromptExits ==
    /\ [][AnswerStep =>
             LET key == keys[key_idx]
                 movedOn == (pc' = "prompt" /\ key_idx' > key_idx) \/ pc' = "save"
             IN  /\ LineRead \in {"y", ""} =>
                       /\ Range(data_needed') = Range(data_needed) \cup {key}
                       /\ movedOn
                 /\ LineRead = "n" =>
                       /\ data_needed' = data_needed
                       /\ movedOn
                 /\ LineRead = "q" =>
                       /\ data_needed' = data_needed
                       /\ pc' = "save"
                 /\ LineRead \notin {"y", "", "n", "q"} =>
                       /\ data_needed' = data_needed
                       /\ key_idx' = key_idx
                       /\ pc' = "prompt"
                       /\ Prompted' = Append(Prompted, key)]_vars
    /\ (pc = "prompt") ~> (pc = "exited")

\* the user typed an invalid line, then the empty line, and the run has ended
C10_Witness ==
    /\ pc = "exited"
    /\ Invalids(stdout) >= 1
    /\ \E n \in DOMAIN stdin_log : stdin_log[n] = "Y"
    /\ \E n \in DOMAIN stdin_log : stdin_log[n] = ""
    /\ Len(stdin_log) >= 3

====
